---- MODULE Spec2Model ----
(***************************************************************************)
(* A model of blueetl_core.utils: the filter algebra (compare,             *)
(* _and_or_mask, query_frame, is_subfilter) and the prefix cache           *)
(* (CachedDataFrame).                                                      *)
(*                                                                         *)
(* Python values are tagged records: Scalar(n), ListV(<<..>>) and          *)
(* DictV(f) with f a function from operator names to operands.  A dict     *)
(* whose insertion order matters (a query, a filter) is a sequence of      *)
(* <<key, value>> pairs with distinct keys.  A call's outcome is a record  *)
(* [ok, val, err]: ok = FALSE stands for a raised exception named by err.  *)
(***************************************************************************)
EXTENDS Integers, Sequences, FiniteSets, TLC

VARIABLES
    stack,        \* CachedDataFrame._stack: sequence of CachedItem
    matched,      \* CachedDataFrame._matched
    lastQuery,    \* the query argument of the most recent query call
    lastIgnore,   \* its ignore_unknown_keys argument
    ret,          \* its outcome: the returned view, or the exception raised
    selfDf,       \* CachedDataFrame._df: the base table
    pc,           \* concurrent callers: the statement of query each one is at
    tquery,       \* concurrent callers: the query argument of the current call
    tdf,          \* concurrent callers: the local df
    tcol,         \* concurrent callers: the local col
    tval,         \* concurrent callers: the local val
    tret,         \* concurrent callers: the outcome of the call
    raced,        \* whether some call began while another call was in progress
    calls,        \* concurrent callers: the number of calls made so far
    qfKind,       \* query_frame / query_series: which of the two is called
    qfList,       \* query_frame / query_series: the query_list argument
    qfRet,        \* query_frame / query_series: the outcome of the call
    sfLeft,       \* is_subfilter: the left argument
    sfRight,      \* is_subfilter: the right argument
    sfStrict,     \* is_subfilter: the strict argument
    sfRet,        \* is_subfilter: the outcome of the call
    cmpDtype,     \* compare: the dtype of obj
    cmpObj,       \* compare: the obj argument, a Series
    cmpValue,     \* compare: the value argument
    cmpRet,       \* compare: the outcome of the call
    scKind,       \* smart_concat: a list, a list with keys, or a mapping
    scItems,      \* smart_concat: the objects, each with the key it is supplied under
    scSkipEmpty,  \* smart_concat: the skip_empty argument
    scRet         \* smart_concat: the outcome of the call

cacheVars == <<stack, matched, lastQuery, lastIgnore, ret, selfDf>>
threadVars == <<pc, tquery, tdf, tcol, tval, tret, raced, calls>>
frameVars == <<qfKind, qfList, qfRet>>
subfilterVars == <<sfLeft, sfRight, sfStrict, sfRet>>
compareVars == <<cmpDtype, cmpObj, cmpValue, cmpRet>>
concatVars == <<scKind, scItems, scSkipEmpty, scRet>>
vars == <<cacheVars, threadVars, frameVars, subfilterVars, compareVars, concatVars>>

-----------------------------------------------------------------------------
(* Bounds *)

MaxVal == 1        \* cell values of the base table range over 0..MaxVal
NRows == 8         \* rows of the base table
MaxQueryLen == 2   \* fields of one query dict
MaxCalls == 2      \* calls the two concurrent callers make in all
MaxDicts == 2      \* dicts of one query list
MaxObjects == 2    \* objects passed to smart_concat
MaxOperand == 1    \* operands of the filters given to is_subfilter range over 0..MaxOperand

-----------------------------------------------------------------------------
(* Python values and outcomes *)

None == "<None>"

Scalar(n) == [t |-> "scalar", v |-> n]
ListV(s) == [t |-> "list", v |-> s]
DictV(f) == [t |-> "dict", v |-> f]

\* args: what the exception names (the offending keys), as a set
Return(v) == [ok |-> TRUE, val |-> v, err |-> "", args |-> {}]
RaiseWith(e, a) == [ok |-> FALSE, val |-> <<>>, err |-> e, args |-> a]
Raise(e) == RaiseWith(e, {})
\* a returned Python None (no value)
ReturnNone == [ok |-> TRUE, val |-> <<>>, err |-> "None", args |-> {}]
IsNone(out) == out.ok /\ out.err = "None"

Min(a, b) == IF a <= b THEN a ELSE b

Keys(d) == [i \in DOMAIN d |-> d[i][1]]
Values(d) == [i \in DOMAIN d |-> d[i][2]]
KeySet(d) == {d[i][1] : i \in DOMAIN d}

\* bool(key) for the names used here: None and the empty string are falsy
Truthy(k) == k # None /\ k # ""

-----------------------------------------------------------------------------
(* The base table: one column "a" and a four-level index whose levels are  *)
(* named "i", "" (a non-null but falsy name), "a" (also a column name) and *)
(* None (an unnamed level).                                                *)

Columns == <<"a">>
IndexNames == <<"i", "", "a", None>>

BaseRow(r) ==
    [id  |-> r,
     col |-> [c \in {"a"} |-> (r \div 4) % (MaxVal + 1)],
     idx |-> << (r \div 2) % (MaxVal + 1), r % (MaxVal + 1),
                (r + 1) % (MaxVal + 1), r >>]

BaseDf == [r \in 1..NRows |-> BaseRow(r - 1)]

SeqToSet(s) == {s[i] : i \in DOMAIN s}

\* df[key]
ColumnValues(df, key) == [i \in DOMAIN df |-> df[i].col[key]]

\* df.index.get_level_values(key): the first level carrying that name
LevelNumber(key) == CHOOSE p \in DOMAIN IndexNames :
                        /\ IndexNames[p] = key
                        /\ \A p2 \in DOMAIN IndexNames : IndexNames[p2] = key => p <= p2
LevelValues(df, key) == [i \in DOMAIN df |-> df[i].idx[LevelNumber(key)]]

\* df.loc[mask]: the rows whose mask element is true, in order
RECURSIVE LocFrom(_, _, _)
LocFrom(df, mask, i) ==
    IF i > Len(df) THEN <<>>
    ELSE (IF mask[i] THEN <<df[i]>> ELSE <<>>) \o LocFrom(df, mask, i + 1)
Loc(df, mask) == LocFrom(df, mask, 1)

-----------------------------------------------------------------------------
(* compare *)

COMPARISON_OPERATORS == {"eq", "ne", "le", "lt", "ge", "gt", "isin", "regex"}

\* COMPARISON_OPERATORS[op](obj)(v) on one element x of an integer Series
OpElem(op, x, v) ==
    CASE op = "eq" -> x = v
      [] op = "ne" -> x # v
      [] op = "le" -> x <= v
      [] op = "lt" -> x < v
      [] op = "ge" -> x >= v
      [] op = "gt" -> x > v
      [] op = "isin" -> \E j \in DOMAIN v : v[j] = x

\* np.all(masks, axis=0) and np.any(masks, axis=0) on a set of masks of length n
NpAll(masks, n) == [i \in 1..n |-> \A m \in masks : m[i]]
NpAny(masks, n) == [i \in 1..n |-> \E m \in masks : m[i]]

\* A string is a sequence of characters, a character a positive number; Caret
\* is the character ^ of a regular expression
Caret == 0

\* a < b on strings: the lexicographic order
StrLt(a, b) ==
    \E i \in 1..Len(b) :
        /\ \A j \in 1..(i - 1) : j <= Len(a) /\ a[j] = b[j]
        /\ i > Len(a) \/ a[i] < b[i]

\* re.search(pat, x) for a pattern of plain characters, anchored by a leading ^
StrContains(x, pat) ==
    IF pat # <<>> /\ pat[1] = Caret
        THEN Len(pat) - 1 <= Len(x) /\ SubSeq(x, 1, Len(pat) - 1) = Tail(pat)
    ELSE \E i \in 0..(Len(x) - Len(pat)) : SubSeq(x, i + 1, i + Len(pat)) = pat

\* COMPARISON_OPERATORS[op](obj)(v) on one element x of a Series of strings
StrOpElem(op, x, v) ==
    CASE op = "eq" -> x = v
      [] op = "ne" -> x # v
      [] op = "le" -> StrLt(x, v) \/ x = v
      [] op = "lt" -> StrLt(x, v)
      [] op = "ge" -> ~StrLt(x, v)
      [] op = "gt" -> ~StrLt(x, v) /\ x # v
      [] op = "isin" -> \E j \in DOMAIN v : v[j] = x
      [] op = "regex" -> StrContains(x, v)

\* the mask of one operator on a Series of the given dtype
OpMask(dtype, op, obj, v) ==
    [i \in DOMAIN obj |->
        IF dtype = "object" THEN StrOpElem(op, obj[i], v) ELSE OpElem(op, obj[i], v)]

\* compare that combines the masks of the operators with np.any
compare_on_any(dtype, obj, value) ==
    IF value.t = "dict" THEN
        IF DOMAIN value.v = {} THEN Raise("ValueError: Empty filter")
        ELSE IF DOMAIN value.v \ COMPARISON_OPERATORS # {}
            THEN RaiseWith("ValueError: Unsupported operator(s)",
                           DOMAIN value.v \ COMPARISON_OPERATORS)
        ELSE IF "regex" \in DOMAIN value.v /\ dtype # "object"
            THEN Raise("AttributeError: Can only use .str accessor with string values")
        ELSE Return(NpAny({OpMask(dtype, op, obj, value.v[op]) : op \in DOMAIN value.v},
                          Len(obj)))
    ELSE IF value.t = "list" THEN Return(OpMask(dtype, "isin", obj, value.v))
    ELSE Return([i \in DOMAIN obj |-> obj[i] = value.v])

\* compare that checks the operators before it checks for the empty mapping,
\* and names all the keys of the mapping
compare_on_unchecked(dtype, obj, value) ==
    IF value.t = "dict" THEN
        IF DOMAIN value.v \ COMPARISON_OPERATORS # {}
            THEN RaiseWith("ValueError: Unsupported operator(s)", DOMAIN value.v)
        ELSE IF "regex" \in DOMAIN value.v /\ dtype # "object"
            THEN Raise("AttributeError: Can only use .str accessor with string values")
        ELSE Return(NpAll({OpMask(dtype, op, obj, value.v[op]) : op \in DOMAIN value.v},
                          Len(obj)))
    ELSE IF value.t = "list" THEN Return(OpMask(dtype, "isin", obj, value.v))
    ELSE Return([i \in DOMAIN obj |-> obj[i] = value.v])

\* compare on a Series obj of the given dtype: int64, or object for strings
compare_on(dtype, obj, value) ==
    IF value.t = "dict" THEN
        IF DOMAIN value.v = {} THEN Raise("ValueError: Empty filter")
        ELSE IF DOMAIN value.v \ COMPARISON_OPERATORS # {}
            THEN RaiseWith("ValueError: Unsupported operator(s)",
                           DOMAIN value.v \ COMPARISON_OPERATORS)
        \* the .str accessor exists only on string data
        ELSE IF "regex" \in DOMAIN value.v /\ dtype # "object"
            THEN Raise("AttributeError: Can only use .str accessor with string values")
        ELSE Return(NpAll({OpMask(dtype, op, obj, value.v[op]) : op \in DOMAIN value.v},
                          Len(obj)))
    ELSE IF value.t = "list" THEN Return(OpMask(dtype, "isin", obj, value.v))
    ELSE Return([i \in DOMAIN obj |-> obj[i] = value.v])

\* compare on the integer Series of the tables of this model
compare(obj, value) == compare_on("int64", obj, value)

-----------------------------------------------------------------------------
(* _and_or_mask, query_frame *)

\* The first raised exception of a sequence of outcomes, if any
FirstError(outs) ==
    LET bad == {k \in DOMAIN outs : ~outs[k].ok}
    IN  outs[CHOOSE k \in bad : \A k2 \in bad : k <= k2]

AllOk(outs) == \A k \in DOMAIN outs : outs[k].ok

\* _and_or_mask that combines the masks of the dictionaries with np.all
and_or_mask_all(query_list, filter_func, n) ==
    LET queries == SelectSeq(query_list, LAMBDA query : query # <<>>)   \* if query:
        and_masks == [k \in DOMAIN queries |-> filter_func[queries[k]]]
        or_masks == [k \in DOMAIN queries |->
                        IF Len(and_masks[k].val) = 1 THEN and_masks[k].val[1]
                        ELSE NpAll(SeqToSet(and_masks[k].val), n)]
    IN  IF ~AllOk(and_masks) THEN FirstError(and_masks)
        ELSE IF or_masks = <<>> THEN ReturnNone
        ELSE IF Len(or_masks) = 1 THEN Return(or_masks[1])
        ELSE Return(NpAll(SeqToSet(or_masks), n))

\* filter_func is the function from the queries of query_list to their masks,
\* n is the length of the masks (the number of rows)
and_or_mask(query_list, filter_func, n) ==
    LET queries == SelectSeq(query_list, LAMBDA query : query # <<>>)   \* if query:
        and_masks == [k \in DOMAIN queries |-> filter_func[queries[k]]]
        or_masks == [k \in DOMAIN queries |->
                        IF Len(and_masks[k].val) = 1 THEN and_masks[k].val[1]
                        ELSE NpAll(SeqToSet(and_masks[k].val), n)]
    IN  IF ~AllOk(and_masks) THEN FirstError(and_masks)
        ELSE IF or_masks = <<>> THEN ReturnNone
        ELSE IF Len(or_masks) = 1 THEN Return(or_masks[1])
        ELSE Return(NpAny(SeqToSet(or_masks), n))

\* mapping of query_frame: index names that are not None, overridden by columns
MappingKeys == ({IndexNames[p] : p \in DOMAIN IndexNames} \ {None}) \cup SeqToSet(Columns)
Mapping(key) == IF key \in SeqToSet(Columns) THEN "columns" ELSE "index"

\* a filter function in which a key that is no field of the table matches no row
frame_filter_func_nomatch(df, query) ==
    LET known == SelectSeq(query, LAMBDA kv : kv[1] \in MappingKeys)
        cols == SelectSeq(known, LAMBDA kv : Mapping(kv[1]) = "columns")
        inds == SelectSeq(known, LAMBDA kv : Mapping(kv[1]) = "index")
        outs == [k \in DOMAIN cols |-> compare(ColumnValues(df, cols[k][1]), cols[k][2])]
                \o [k \in DOMAIN inds |-> compare(LevelValues(df, inds[k][1]), inds[k][2])]
                \o (IF Len(known) < Len(query)
                       THEN <<Return([i \in DOMAIN df |-> FALSE])>> ELSE <<>>)
    IN  IF ~AllOk(outs) THEN FirstError(outs)
        ELSE Return([k \in DOMAIN outs |-> outs[k].val])

frame_filter_func(df, query) ==
    LET unknown == {k \in DOMAIN query : query[k][1] \notin MappingKeys}
        cols == SelectSeq(query, LAMBDA kv : Mapping(kv[1]) = "columns")
        inds == SelectSeq(query, LAMBDA kv : Mapping(kv[1]) = "index")
        outs == [k \in DOMAIN cols |-> compare(ColumnValues(df, cols[k][1]), cols[k][2])]
                \o [k \in DOMAIN inds |-> compare(LevelValues(df, inds[k][1]), inds[k][2])]
    IN  IF unknown # {}
            THEN RaiseWith("KeyError",
                           {query[CHOOSE k \in unknown : \A k2 \in unknown : k <= k2][1]})
        ELSE IF ~AllOk(outs) THEN FirstError(outs)
        ELSE Return([k \in DOMAIN outs |-> outs[k].val])

query_frame(df, query_list) ==
    LET mask == and_or_mask(query_list,
                            [query \in SeqToSet(query_list) |-> frame_filter_func(df, query)],
                            Len(df))
    IN  IF ~mask.ok THEN mask
        ELSE IF ~IsNone(mask) THEN Return(Loc(df, mask.val))
        ELSE Return(df)

\* the Series filtered by query_series: the rows of the base table under the
\* same index (query_series reads nothing but the index)
series_filter_func(series, query) ==
    LET outs == [k \in DOMAIN query |->
                    IF query[k][1] \in SeqToSet(IndexNames)
                        THEN compare(LevelValues(series, query[k][1]), query[k][2])
                        ELSE RaiseWith("KeyError", {query[k][1]})]
    IN  IF ~AllOk(outs) THEN FirstError(outs)
        ELSE Return([k \in DOMAIN outs |-> outs[k].val])

query_series(series, query_list) ==
    LET mask == and_or_mask(query_list,
                            [query \in SeqToSet(query_list) |->
                                series_filter_func(series, query)],
                            Len(series))
    IN  IF ~mask.ok THEN mask
        ELSE IF ~IsNone(mask) THEN Return(Loc(series, mask.val))
        ELSE Return(series)

-----------------------------------------------------------------------------
(* CachedDataFrame *)

\* df.etl.q({col: val}): the accessor filters the frame by the one-field query
EtlQ(df, col, val) == query_frame(df, << << <<col, val>> >> >>)

\* the loop without its break: every matching position is counted
longest_match_count_nobreak(iter1, iter2) ==
    Cardinality({i \in 1..Min(Len(iter1), Len(iter2)) : iter1[i] = iter2[i]})

longest_match_count(iter1, iter2) ==
    LET n == Min(Len(iter1), Len(iter2))                 \* zip stops at the shorter
        differ == {i \in 1..n : iter1[i] # iter2[i]}
    IN  IF differ = {} THEN n
        ELSE (CHOOSE i \in differ : \A i2 \in differ : i <= i2) - 1

CachedItem(df, key, value) == [df |-> df, key |-> key, value |-> value]

\* self._df and self._valid_keys, set by __init__
SelfDf == selfDf
valid_keys ==
    SeqToSet(Columns) \cup {IndexNames[p] : p \in {p2 \in DOMAIN IndexNames : Truthy(IndexNames[p2])}}

longest_keys_count(st, keys) ==
    longest_match_count([i \in DOMAIN st |-> st[i].key], keys)

longest_values_count(st, values) ==
    longest_match_count([i \in DOMAIN st |-> st[i].value], values)

\* if ignore_unknown_keys: query = {key: value for ... if key in self._valid_keys}
PruneQuery(query, ignore_unknown_keys) ==
    IF ignore_unknown_keys THEN SelectSeq(query, LAMBDA kv : kv[1] \in valid_keys)
    ELSE query

\* max in place of min: the prefix is taken to match where only the keys do
MatchedCount_max(st, query_keys, query_values) ==
    LET k == longest_keys_count(st, query_keys)
        v == longest_values_count(st, query_values)
    IN  IF k >= v THEN k ELSE v

\* the keys count alone
MatchedCount_keys(st, query_keys, query_values) == longest_keys_count(st, query_keys)

\* self._matched = min(keys count, values count)
MatchedCount(st, query_keys, query_values) ==
    Min(longest_keys_count(st, query_keys), longest_values_count(st, query_values))

\* a truncation that drops nothing
Truncate_keep(st, m) == st

\* self._stack[: self._matched]
Truncate(st, m) == SubSeq(st, 1, Min(m, Len(st)))

\* the base table whatever the stack holds
TopView_base(st) == SelfDf

\* df = self._stack[-1].df if self._stack else self._df
TopView(st) == IF st # <<>> THEN st[Len(st)].df ELSE SelfDf

\* the while loop of query: one filter and one append per missing field; an
\* exception leaves the loop with the entries appended so far
RECURSIVE UpdateCache(_, _, _, _)
UpdateCache(st, df, query_keys, query_values) ==
    IF Len(st) < Len(query_keys) THEN
        LET col == query_keys[Len(st) + 1]
            val == query_values[Len(st) + 1]
            out == EtlQ(df, col, val)
        IN  IF ~out.ok THEN [stack |-> st, ret |-> out]
            ELSE UpdateCache(Append(st, CachedItem(out.val, col, val)), out.val,
                             query_keys, query_values)
    ELSE [stack |-> st, ret |-> Return(df)]

\* a call that keeps none of the entries it computes
QueryOutcome_dropnew(st, query, ignore_unknown_keys) ==
    LET q == PruneQuery(query, ignore_unknown_keys)
        m == MatchedCount(st, Keys(q), Values(q))
        st1 == Truncate(st, m)
        out == UpdateCache(st1, TopView(st1), Keys(q), Values(q))
    IN  [stack |-> st1, matched |-> m, ret |-> out.ret]

\* the effect of one call of query on the instance whose stack is st
QueryOutcome(st, query, ignore_unknown_keys) ==
    LET q == PruneQuery(query, ignore_unknown_keys)
        m == MatchedCount(st, Keys(q), Values(q))
        st1 == Truncate(st, m)
        out == UpdateCache(st1, TopView(st1), Keys(q), Values(q))
    IN  [stack |-> out.stack, matched |-> m, ret |-> out.ret]

QueryKeys == {"a", "i", "", "u"}
QueryValues == {Scalar(0), Scalar(1)}
QueryFields == QueryKeys \X QueryValues

\* dicts of at most MaxQueryLen fields, in every insertion order
Queries ==
    UNION {{q \in [1..n -> QueryFields] : \A i, j \in 1..n : q[i][1] = q[j][1] => i = j} :
              n \in 0..MaxQueryLen}

NoCall == Raise("no call yet")

Threads == {1, 2}

\* CachedDataFrame.__init__, no call made yet
InitCache ==
    /\ selfDf = BaseDf
    /\ stack = <<>>
    /\ matched = 0
    /\ lastQuery = <<>>
    /\ lastIgnore = FALSE
    /\ ret = NoCall

InitThreads ==
    /\ pc = [t \in Threads |-> "idle"]
    /\ tquery = [t \in Threads |-> <<>>]
    /\ tdf = [t \in Threads |-> <<>>]
    /\ tcol = [t \in Threads |-> ""]
    /\ tval = [t \in Threads |-> Scalar(0)]
    /\ tret = [t \in Threads |-> NoCall]
    /\ raced = FALSE
    /\ calls = 0

\* no call of query_frame, query_series or is_subfilter is modelled
IdleFrame ==
    /\ qfKind = "frame"
    /\ qfList = <<>>
    /\ qfRet = NoCall

IdleSubfilter ==
    /\ sfLeft = <<>>
    /\ sfRight = <<>>
    /\ sfStrict = FALSE
    /\ sfRet = NoCall

IdleCompare ==
    /\ cmpDtype = "int64"
    /\ cmpObj = <<>>
    /\ cmpValue = Scalar(0)
    /\ cmpRet = NoCall

IdleConcat ==
    /\ scKind = "list"
    /\ scItems = <<>>
    /\ scSkipEmpty = TRUE
    /\ scRet = NoCall

Init == InitCache /\ InitThreads /\ IdleFrame /\ IdleSubfilter /\ IdleCompare /\ IdleConcat

\* One whole call of query, made by a single caller
Query(query, ignore_unknown_keys) ==
    \E out \in {QueryOutcome(stack, query, ignore_unknown_keys)} :
        /\ stack' = out.stack
        /\ matched' = out.matched
        /\ ret' = out.ret
        /\ lastQuery' = query
        /\ lastIgnore' = ignore_unknown_keys
        /\ selfDf' = selfDf
        /\ UNCHANGED <<threadVars, frameVars, subfilterVars, compareVars, concatVars>>

Next == \E query \in Queries, ignore_unknown_keys \in BOOLEAN : Query(query, ignore_unknown_keys)

Spec == Init /\ [][Next]_vars

-----------------------------------------------------------------------------
(* Properties of the prefix cache used by one caller *)

\* directly filtering the base table by the conjunction of the fields of q
Direct(q) == query_frame(SelfDf, <<q>>)

\* the fields a table has: its columns and its non-null index level names
KnownFields == SeqToSet(Columns) \cup (SeqToSet(IndexNames) \ {None})

Called == ret # NoCall

\* every entry's view is the base table filtered by its field and those below it
StackValid(st) ==
    \A i \in DOMAIN st :
        LET d == Direct([j \in 1..i |-> <<st[j].key, st[j].value>>])
        IN  d.ok /\ st[i].df = d.val

\* C1: whatever calls were made before (failed ones included), a call that
\* returns yields exactly the rows, in order, of the base table filtered
\* directly by the conjunction of the fields of the query it runs
C1_ResultIndependentOfHistory ==
    (Called /\ ret.ok) =>
        LET d == Direct(PruneQuery(lastQuery, lastIgnore))
        IN  d.ok /\ ret.val = d.val

\* C1 witness: a call that reused a cached prefix, extended it, and returned
\* a proper, non-empty part of the table
C1_Witness ==
    /\ Called /\ ret.ok /\ ~lastIgnore
    /\ 0 < matched /\ matched < Len(lastQuery)
    /\ ret.val # <<>> /\ ret.val # SelfDf

\* C2 as stated: after a failed call the stack is the stack before the call
\* cut to the matched prefix, with no entry added
C2_FailedCallOnlyTruncates ==
    [][~ret'.ok => stack' = Truncate(stack, matched')]_vars

\* C2 amended: after a failed call the stack is the stack before the call cut
\* to the matched prefix, followed by one entry per query field from position
\* matched up to the first field whose filtering raises; every entry holds the
\* base table filtered by the query's fields up to it, and the failing field
\* and the fields after it add no entry
C2_FailedCallKeepsFilteredPrefix ==
    [][~ret'.ok =>
        LET q == PruneQuery(lastQuery', lastIgnore')
            n == Len(stack')
        IN  /\ matched' <= n /\ n < Len(q)
            /\ SubSeq(stack', 1, matched') = SubSeq(stack, 1, matched')
            /\ \A i \in 1..n :
                   /\ Direct(SubSeq(q, 1, i)).ok
                   /\ stack'[i] = CachedItem(Direct(SubSeq(q, 1, i)).val, q[i][1], q[i][2])
            /\ ~Direct(<<q[n + 1]>>).ok
            /\ ret' = Direct(<<q[n + 1]>>)
    ]_vars

\* C2 witness: a failed call that had appended entries before it failed
C2_Witness ==
    /\ Called /\ ~ret.ok
    /\ matched < Len(stack)

\* C5: a call with ignore_unknown_keys false whose query holds a key that is
\* no field of the table raises the KeyError of the filtering step, naming an
\* unknown key, and returns no view
C5_UnknownKeyRaises ==
    (Called /\ ~lastIgnore /\ KeySet(lastQuery) \ KnownFields # {}) =>
        /\ ~ret.ok
        /\ ret.err = "KeyError"
        /\ ret.args # {} /\ ret.args \subseteq KeySet(lastQuery) \ KnownFields

\* C5 witness: the unknown key is the second field, its first field was
\* filtered and cached, and the call failed
C5_Witness ==
    /\ Called /\ ~lastIgnore /\ Len(lastQuery) = 2
    /\ lastQuery[1][1] \in KnownFields /\ lastQuery[2][1] \notin KnownFields
    /\ Len(stack) = 1 /\ ~ret.ok

\* C6 as stated: a call with ignore_unknown_keys true has the outcome (view,
\* matched count, stack) of the call with ignore_unknown_keys false on the
\* query with the keys that are no field of the table removed
ClaimPrune(query) == SelectSeq(query, LAMBDA kv : kv[1] \in KnownFields)
C6_IgnoreEqualsPrunedQuery ==
    [][lastIgnore' =>
        [stack |-> stack', matched |-> matched', ret |-> ret']
            = QueryOutcome(stack, ClaimPrune(lastQuery'), FALSE)]_vars

-----------------------------------------------------------------------------
(* Two callers of query on one instance, with no lock: each statement of   *)
(* query is one step, and the steps of the two calls interleave freely.    *)

\* the queries the concurrent callers draw from: the known keys only
ConcQueries == {q \in Queries : KeySet(q) \subseteq {"a", ""}}

InCall(t) == pc[t] \notin {"idle", "done"}

\* query is entered: query_keys, query_values are locals of the call
Enter(t, query) ==
    /\ ~InCall(t)
    /\ calls < MaxCalls
    /\ calls' = calls + 1
    /\ pc' = [pc EXCEPT ![t] = "matched"]
    /\ tquery' = [tquery EXCEPT ![t] = query]
    /\ tret' = [tret EXCEPT ![t] = NoCall]
    /\ tdf' = [tdf EXCEPT ![t] = <<>>]
    /\ tcol' = [tcol EXCEPT ![t] = ""]
    /\ tval' = [tval EXCEPT ![t] = Scalar(0)]
    /\ raced' = (raced \/ \E t2 \in Threads \ {t} : InCall(t2))
    /\ UNCHANGED <<cacheVars, frameVars, subfilterVars, compareVars, concatVars>>

\* self._matched = min(...)
StmtMatched(t) ==
    /\ pc[t] = "matched"
    /\ matched' = MatchedCount(stack, Keys(tquery[t]), Values(tquery[t]))
    /\ pc' = [pc EXCEPT ![t] = "truncate"]
    /\ UNCHANGED <<stack, lastQuery, lastIgnore, ret, selfDf, tquery, tdf, tcol, tval, tret, raced, calls, frameVars, subfilterVars, compareVars, concatVars>>

\* self._stack = self._stack[: self._matched]
StmtTruncate(t) ==
    /\ pc[t] = "truncate"
    /\ stack' = Truncate(stack, matched)
    /\ pc' = [pc EXCEPT ![t] = "top"]
    /\ UNCHANGED <<matched, lastQuery, lastIgnore, ret, selfDf, tquery, tdf, tcol, tval, tret, raced, calls, frameVars, subfilterVars, compareVars, concatVars>>

\* df = self._stack[-1].df if self._stack else self._df
StmtTop(t) ==
    /\ pc[t] = "top"
    /\ tdf' = [tdf EXCEPT ![t] = TopView(stack)]
    /\ pc' = [pc EXCEPT ![t] = "while"]
    /\ UNCHANGED <<cacheVars, tquery, tcol, tval, tret, raced, calls, frameVars, subfilterVars, compareVars, concatVars>>

\* while len(self._stack) < len(query): ... ; return df
StmtWhile(t) ==
    /\ pc[t] = "while"
    /\ IF Len(stack) < Len(tquery[t])
           THEN /\ pc' = [pc EXCEPT ![t] = "col"]
                /\ tret' = tret
           ELSE /\ pc' = [pc EXCEPT ![t] = "done"]
                /\ tret' = [tret EXCEPT ![t] = Return(tdf[t])]
    /\ UNCHANGED <<cacheVars, tquery, tdf, tcol, tval, raced, calls, frameVars, subfilterVars, compareVars, concatVars>>

\* col = query_keys[len(self._stack)]
StmtCol(t) ==
    /\ pc[t] = "col"
    /\ IF Len(stack) < Len(tquery[t])
           THEN /\ tcol' = [tcol EXCEPT ![t] = Keys(tquery[t])[Len(stack) + 1]]
                /\ pc' = [pc EXCEPT ![t] = "val"]
                /\ tret' = tret
           ELSE /\ tcol' = tcol
                /\ pc' = [pc EXCEPT ![t] = "done"]
                /\ tret' = [tret EXCEPT ![t] = Raise("IndexError: tuple index out of range")]
    /\ UNCHANGED <<cacheVars, tquery, tdf, tval, raced, calls, frameVars, subfilterVars, compareVars, concatVars>>

\* val = query_values[len(self._stack)]
StmtVal(t) ==
    /\ pc[t] = "val"
    /\ IF Len(stack) < Len(tquery[t])
           THEN /\ tval' = [tval EXCEPT ![t] = Values(tquery[t])[Len(stack) + 1]]
                /\ pc' = [pc EXCEPT ![t] = "filter"]
                /\ tret' = tret
           ELSE /\ tval' = tval
                /\ pc' = [pc EXCEPT ![t] = "done"]
                /\ tret' = [tret EXCEPT ![t] = Raise("IndexError: tuple index out of range")]
    /\ UNCHANGED <<cacheVars, tquery, tdf, tcol, raced, calls, frameVars, subfilterVars, compareVars, concatVars>>

\* df = df.etl.q({col: val})
StmtFilter(t) ==
    /\ pc[t] = "filter"
    /\ \E out \in {EtlQ(tdf[t], tcol[t], tval[t])} :
          IF out.ok
             THEN /\ tdf' = [tdf EXCEPT ![t] = out.val]
                  /\ pc' = [pc EXCEPT ![t] = "append"]
                  /\ tret' = tret
             ELSE /\ tdf' = tdf
                  /\ pc' = [pc EXCEPT ![t] = "done"]
                  /\ tret' = [tret EXCEPT ![t] = out]
    /\ UNCHANGED <<cacheVars, tquery, tcol, tval, raced, calls, frameVars, subfilterVars, compareVars, concatVars>>

\* self._stack.append(CachedItem(df=df, key=col, value=val))
StmtAppend(t) ==
    /\ pc[t] = "append"
    /\ stack' = Append(stack, CachedItem(tdf[t], tcol[t], tval[t]))
    /\ pc' = [pc EXCEPT ![t] = "while"]
    /\ UNCHANGED <<matched, lastQuery, lastIgnore, ret, selfDf, tquery, tdf, tcol, tval, tret, raced, calls, frameVars, subfilterVars, compareVars, concatVars>>

NextConcurrent ==
    \E t \in Threads :
        \/ \E query \in ConcQueries : Enter(t, query)
        \/ StmtMatched(t)
        \/ StmtTruncate(t)
        \/ StmtTop(t)
        \/ StmtWhile(t)
        \/ StmtCol(t)
        \/ StmtVal(t)
        \/ StmtFilter(t)
        \/ StmtAppend(t)

SpecConcurrent == Init /\ [][NextConcurrent]_vars

\* a finished call returned a view that is not the base table filtered by its query
WrongReturn(t) ==
    /\ pc[t] = "done" /\ tret[t].ok
    /\ tret[t].val # Direct(tquery[t]).val

\* C4: as long as no call began while another was in progress, every call
\* that returned gave the base table filtered by its own query and every
\* stack entry is valid; once calls overlap this is lost (the witness)
C4_SerializedCallsAreCorrect ==
    ~raced => (StackValid(stack) /\ \A t \in Threads : ~WrongReturn(t))

\* C4 witness: two calls interleaved, and one of them returned a view that
\* differs from the base table filtered by its own query
C4_Witness == raced /\ \E t \in Threads : WrongReturn(t)

-----------------------------------------------------------------------------
(* query_frame and query_series called on the base table with a query list *)

FrameFields ==
    ({"a"} \X {Scalar(0), Scalar(1), ListV(<<0, 1>>)})
        \cup ({""} \X {Scalar(0), Scalar(1)})
        \cup ({"u"} \X {Scalar(0)})

\* dicts of no, one or two fields
FrameDicts ==
    {<<>>} \cup {<<f>> : f \in FrameFields}
           \cup {<<fg[1], fg[2]>> : fg \in {p \in FrameFields \X FrameFields : p[1][1] # p[2][1]}}

QueryLists == UNION {[1..n -> FrameDicts] : n \in 0..MaxDicts}

InitQueryFrame ==
    /\ InitCache /\ InitThreads /\ IdleSubfilter /\ IdleCompare /\ IdleConcat
    /\ qfKind \in {"frame", "series"}
    /\ qfList \in QueryLists
    /\ qfRet = NoCall

CallQueryFrame ==
    /\ qfRet = NoCall
    /\ qfKind = "frame"
    /\ qfRet' = query_frame(BaseDf, qfList)
    /\ UNCHANGED <<cacheVars, threadVars, subfilterVars, qfKind, qfList, compareVars, concatVars>>

CallQuerySeries ==
    /\ qfRet = NoCall
    /\ qfKind = "series"
    /\ qfRet' = query_series(BaseDf, qfList)
    /\ UNCHANGED <<cacheVars, threadVars, subfilterVars, qfKind, qfList, compareVars, concatVars>>

NextQueryFrame == CallQueryFrame \/ CallQuerySeries

SpecQueryFrame == InitQueryFrame /\ [][NextQueryFrame]_vars

\* C3 as stated: a query list holding at least one empty dict returns every
\* row of the input, whatever else the list holds
C3_EmptyDictReturnsAllRows ==
    (qfRet # NoCall /\ \E k \in DOMAIN qfList : qfList[k] = <<>>) =>
        qfRet = Return(BaseDf)

-----------------------------------------------------------------------------
(* is_subfilter *)

\* value in lst
InList(x, lst) == \E j \in DOMAIN lst : lst[j] = x

\* _to_dict that takes the eq operand even when it is outside isin
to_dict_nofold(obj) ==
    IF obj.t = "dict" THEN
        IF "eq" \in DOMAIN obj.v THEN
            [op \in (DOMAIN obj.v \ {"eq"}) \cup {"isin"} |->
                IF op = "isin" THEN <<obj.v["eq"]>> ELSE obj.v[op]]
        ELSE obj.v
    ELSE IF obj.t = "list" THEN [op \in {"isin"} |-> obj.v]
    ELSE [op \in {"isin"} |-> <<obj.v>>]

\* _to_dict: the normalized filter, a function from operator names to operands
to_dict(obj) ==
    IF obj.t = "dict" THEN
        IF "eq" \in DOMAIN obj.v THEN
            LET value == obj.v["eq"]
                isin == IF "isin" \notin DOMAIN obj.v \/ InList(value, obj.v["isin"])
                            THEN <<value>> ELSE <<>>
            IN  [op \in (DOMAIN obj.v \ {"eq"}) \cup {"isin"} |->
                    IF op = "isin" THEN isin ELSE obj.v[op]]
        ELSE obj.v
    ELSE IF obj.t = "list" THEN [op \in {"isin"} |-> obj.v]
    ELSE [op \in {"isin"} |-> <<obj.v>>]

\* the operators mapping of _is_subdict
SubdictOperators == {"ne", "le", "lt", "ge", "gt", "isin"}

\* the isin test weakened to an overlap
Operation_isin_overlap(op, a, b) ==
    CASE op = "ne" -> a = b
      [] op = "le" -> a <= b
      [] op = "lt" -> a <= b
      [] op = "ge" -> a >= b
      [] op = "gt" -> a >= b
      [] op = "isin" -> SeqToSet(a) \cap SeqToSet(b) # {}

\* the le test turned round
Operation_le_reversed(op, a, b) ==
    CASE op = "ne" -> a = b
      [] op = "le" -> a >= b
      [] op = "lt" -> a <= b
      [] op = "ge" -> a >= b
      [] op = "gt" -> a >= b
      [] op = "isin" -> SeqToSet(a) \subseteq SeqToSet(b)

Operation(op, a, b) ==
    CASE op = "ne" -> a = b
      [] op = "le" -> a <= b
      [] op = "lt" -> a <= b
      [] op = "ge" -> a >= b
      [] op = "gt" -> a >= b
      [] op = "isin" -> SeqToSet(a) \subseteq SeqToSet(b)

\* _is_subdict without its second assertion
is_subdict_unchecked_d2(d1, d2) ==
    IF ~(DOMAIN d1 \subseteq SubdictOperators)
        THEN Raise("AssertionError: Invalid keys in d1")
    ELSE Return(\A op \in SubdictOperators \cap DOMAIN d2 :
                    op \in DOMAIN d1 /\ Operation(op, d1[op], d2[op]))

is_subdict(d1, d2) ==
    IF ~(DOMAIN d1 \subseteq SubdictOperators)
        THEN Raise("AssertionError: Invalid keys in d1")
    ELSE IF ~(DOMAIN d2 \subseteq SubdictOperators)
        THEN Raise("AssertionError: Invalid keys in d2")
    ELSE Return(\A op \in SubdictOperators \cap DOMAIN d2 :
                    op \in DOMAIN d1 /\ Operation(op, d1[op], d2[op]))

\* left[key]
Lookup(d, key) == d[CHOOSE i \in DOMAIN d : d[i][1] = key][2]

\* the loop `for key in right`, from the i-th key of right on, with the set
\* difference as it stands
RECURSIVE SubfilterLoop(_, _, _, _, _)
SubfilterLoop(left, right, strict, i, difference) ==
    IF i > Len(right) THEN Return(~strict \/ Cardinality(difference) > 0)
    ELSE LET key == right[i][1] IN
         IF key \notin KeySet(left) THEN Return(FALSE)
         ELSE LET dict_left == to_dict(Lookup(left, key))
                  dict_right == to_dict(right[i][2])
                  sub == is_subdict(dict_left, dict_right)
              IN  IF strict /\ dict_left = dict_right
                      THEN SubfilterLoop(left, right, strict, i + 1, difference \ {key})
                  ELSE IF ~sub.ok THEN sub
                  ELSE IF ~sub.val THEN Return(FALSE)
                  ELSE SubfilterLoop(left, right, strict, i + 1, difference)

is_subfilter(left, right, strict) == SubfilterLoop(left, right, strict, 1, KeySet(left))

Operands == 0..MaxOperand
\* lists of no, one or two operands, in both orders and with duplicates
OperandLists == {<<>>} \cup {<<x>> : x \in Operands} \cup {<<x, y>> : x, y \in Operands}

\* "like" stands for an operator name that compare does not know
ScalarOps == {"eq", "ne", "le", "lt", "ge", "gt"}
OperandsOf(op) ==
    IF op = "isin" THEN OperandLists ELSE IF op = "like" THEN {0} ELSE Operands

OneOp(op) == {[o \in {op} |-> x] : x \in OperandsOf(op)}
TwoOps(op1, op2) ==
    {[o \in {op1, op2} |-> IF o = op1 THEN xy[1] ELSE xy[2]] :
        xy \in OperandsOf(op1) \X OperandsOf(op2)}

\* mappings of one operator, of two of the operators eq .. isin, and of le
\* beside regex or beside the unknown operator
OperatorDicts ==
    UNION {OneOp(op) : op \in ScalarOps \cup {"isin", "regex", "like"}}
        \cup UNION {TwoOps(pq[1], pq[2]) :
                       pq \in {p \in (ScalarOps \cup {"isin"}) \X ScalarOps : p[1] # p[2]}}
        \cup TwoOps("le", "regex") \cup TwoOps("le", "like")

FilterValues ==
    {Scalar(x) : x \in Operands} \cup {ListV(l) : l \in OperandLists}
        \cup {DictV(d) : d \in OperatorDicts}

\* the values the two-field filters draw from
FewValues ==
    {Scalar(0), Scalar(1), ListV(<<0, 1>>),
     DictV([o \in {"le"} |-> 1]), DictV([o \in {"regex"} |-> 0]), DictV([o \in {"like"} |-> 0])}

Filters ==
    {<<>>} \cup {<< <<"k1", v>> >> : v \in FilterValues}
           \cup {<< <<"k2", v>> >> : v \in FewValues}
           \cup {<< <<"k1", vw[1]>>, <<"k2", vw[2]>> >> : vw \in FewValues \X FewValues}
           \cup {<< <<"k2", vw[1]>>, <<"k1", vw[2]>> >> : vw \in FewValues \X FewValues}

InitSubfilter ==
    /\ InitCache /\ InitThreads /\ IdleFrame /\ IdleCompare /\ IdleConcat
    /\ sfLeft \in Filters
    /\ sfRight \in Filters
    /\ sfStrict = FALSE
    /\ sfRet = NoCall

CallIsSubfilter(strict) ==
    /\ sfRet = NoCall
    /\ sfStrict' = strict
    /\ sfRet' = is_subfilter(sfLeft, sfRight, strict)
    /\ UNCHANGED <<cacheVars, threadVars, frameVars, sfLeft, sfRight, compareVars, concatVars>>

NextSubfilter == \E strict \in BOOLEAN : CallIsSubfilter(strict)

SpecSubfilter == InitSubfilter /\ [][NextSubfilter]_vars

SubfilterCalled == sfRet # NoCall

\* the operator names used by the mapping values of a filter
OperatorsUsed(f) ==
    UNION {IF f[k][2].t = "dict" THEN DOMAIN f[k][2].v ELSE {} : k \in DOMAIN f}

\* a well-formed filter: scalars, lists, and mappings over the recognized operators
WellFormed(f) == OperatorsUsed(f) \subseteq COMPARISON_OPERATORS

\* a filter over eq, ne, le, lt, ge, gt, isin
Orderable(f) == OperatorsUsed(f) \subseteq COMPARISON_OPERATORS \ {"regex"}

\* C7 as stated: a well-formed filter is a subfilter of itself and not a
\* strict subfilter of itself, and neither call fails
C7_ReflexiveNotStrict ==
    (SubfilterCalled /\ sfLeft = sfRight /\ WellFormed(sfLeft)) =>
        sfRet = Return(~sfStrict)

\* C8 as stated, for filters over eq .. isin: when the strict call returns
\* true, left is a non-strict subfilter of right and right is not a
\* non-strict subfilter of left
C8_StrictMeansMoreSpecific ==
    (SubfilterCalled /\ sfStrict /\ sfRet = Return(TRUE)
        /\ Orderable(sfLeft) /\ Orderable(sfRight)) =>
        /\ is_subfilter(sfLeft, sfRight, FALSE) = Return(TRUE)
        /\ is_subfilter(sfRight, sfLeft, FALSE) # Return(TRUE)

\* The rows a filter is matched against: every pair of values of the fields
\* k1 and k2 from one below the least operand to one above the greatest
Side == MaxOperand + 3
FieldSeries(key) ==
    [i \in 1..(Side * Side) |->
        IF key = "k1" THEN ((i - 1) \div Side) - 1 ELSE ((i - 1) % Side) - 1]

\* the mask of the rows matched by a filter: every field satisfied under compare
FilterMask(f) ==
    LET outs == [k \in DOMAIN f |-> compare(FieldSeries(f[k][1]), f[k][2])]
    IN  IF ~AllOk(outs) THEN FirstError(outs)
        ELSE Return(NpAll({outs[k].val : k \in DOMAIN outs}, Side * Side))

\* C9: when is_subfilter(left, right) returns true for filters over eq, ne,
\* le, lt, ge, gt, isin, every row matched by left is matched by right
C9_SubfilterSound ==
    (SubfilterCalled /\ ~sfStrict /\ sfRet = Return(TRUE)
        /\ Orderable(sfLeft) /\ Orderable(sfRight)) =>
        LET ml == FilterMask(sfLeft)
            mr == FilterMask(sfRight)
        IN  /\ ml.ok /\ mr.ok
            /\ \A i \in DOMAIN ml.val : ml.val[i] => mr.val[i]

\* C9 witness: left folds eq into isin, is a subfilter of right, and matches
\* some but not all of the rows right matches
C9_Witness ==
    /\ SubfilterCalled /\ ~sfStrict /\ sfRet = Return(TRUE)
    /\ Orderable(sfLeft) /\ Orderable(sfRight)
    /\ {"eq", "isin"} \subseteq OperatorsUsed(sfLeft)
    /\ \E i \in 1..(Side * Side) : FilterMask(sfLeft).val[i]
    /\ \E i \in 1..(Side * Side) : FilterMask(sfRight).val[i] /\ ~FilterMask(sfLeft).val[i]
    /\ \E i \in 1..(Side * Side) : ~FilterMask(sfRight).val[i]

\* C10 as stated: a filter value of left or right with an operator key
\* outside the recognized set makes is_subfilter fail, in both modes
C10_UnknownOperatorRaises ==
    (SubfilterCalled /\ ~(WellFormed(sfLeft) /\ WellFormed(sfRight))) => ~sfRet.ok

\* the normalized values of the p-th field of right and of the same field of left
LeftDict(left, right, p) == to_dict(Lookup(left, right[p][1]))
RightDict(right, p) == to_dict(right[p][2])

\* the p-th field of right is in left and is not skipped as equal in strict mode
IsCompared(left, right, strict, p) ==
    /\ right[p][1] \in KeySet(left)
    /\ ~(strict /\ LeftDict(left, right, p) = RightDict(right, p))

HasInvalidKeys(left, right, p) ==
    ~((DOMAIN LeftDict(left, right, p) \cup DOMAIN RightDict(right, p))
          \subseteq {"ne", "le", "lt", "ge", "gt", "isin"})

\* the p-th field of right does not end the loop
FieldPasses(left, right, strict, p) ==
    /\ right[p][1] \in KeySet(left)
    /\ \/ strict /\ LeftDict(left, right, p) = RightDict(right, p)
       \/ /\ ~HasInvalidKeys(left, right, p)
          /\ \A op \in DOMAIN RightDict(right, p) :
                 /\ op \in DOMAIN LeftDict(left, right, p)
                 /\ Operation(op, LeftDict(left, right, p)[op], RightDict(right, p)[op])

\* C10 amended: is_subfilter fails (AssertionError, invalid keys) exactly when
\* the first field of right, in right's order, that does not pass is a field
\* of left that is compared (in strict mode: whose normalized values differ)
\* and whose normalized left or right value has a key outside ne, le, lt, ge,
\* gt, isin; in every other case it returns a boolean
C10_RaisesIffComparedFieldInvalid ==
    SubfilterCalled =>
        /\ ~sfRet.ok <=>
              \E p \in DOMAIN sfRight :
                  /\ \A j \in 1..(p - 1) : FieldPasses(sfLeft, sfRight, sfStrict, j)
                  /\ IsCompared(sfLeft, sfRight, sfStrict, p)
                  /\ HasInvalidKeys(sfLeft, sfRight, p)
        /\ ~sfRet.ok => sfRet.err \in {"AssertionError: Invalid keys in d1",
                                        "AssertionError: Invalid keys in d2"}
        /\ sfRet.ok => sfRet.val \in BOOLEAN

\* C10 witness: a strict call that skipped an equal first field and failed on
\* the unknown operator in the second field of right
C10_Witness ==
    /\ SubfilterCalled /\ sfStrict /\ ~sfRet.ok
    /\ Len(sfRight) = 2
    /\ sfRight[2][2].t = "dict" /\ "like" \in DOMAIN sfRight[2][2].v
    /\ WellFormed(sfLeft)

\* a filter whose values are scalars, lists, or mappings over eq and isin
EqIsin(f) == OperatorsUsed(f) \subseteq {"eq", "isin"}
EqIsinFilters == {f \in Filters : EqIsin(f)}

\* C11: non-strict is_subfilter is transitive on filters over eq and isin:
\* when is_subfilter(A, B) is true, every C with is_subfilter(B, C) true has
\* is_subfilter(A, C) true
C11_Transitive ==
    (SubfilterCalled /\ ~sfStrict /\ sfRet = Return(TRUE)
        /\ EqIsin(sfLeft) /\ EqIsin(sfRight)) =>
        \A c \in EqIsinFilters :
            is_subfilter(sfRight, c, FALSE) = Return(TRUE)
                => is_subfilter(sfLeft, c, FALSE) = Return(TRUE)

\* C11 witness: a chain A, B, C of three filters, none equivalent to the next,
\* where A folds an eq operand into isin
C11_Witness ==
    /\ SubfilterCalled /\ ~sfStrict /\ sfRet = Return(TRUE)
    /\ EqIsin(sfLeft) /\ EqIsin(sfRight)
    /\ {"eq", "isin"} \subseteq OperatorsUsed(sfLeft)
    /\ is_subfilter(sfRight, sfLeft, FALSE) = Return(FALSE)
    /\ \E c \in EqIsinFilters :
           /\ Len(c) = 1
           /\ is_subfilter(sfRight, c, FALSE) = Return(TRUE)
           /\ is_subfilter(c, sfRight, FALSE) = Return(FALSE)

\* The normalization as the claim words it: whether a filter value has an
\* isin operand once normalized, and the set of values of that operand
HasIsin(v) == v.t # "dict" \/ "isin" \in DOMAIN v.v \/ "eq" \in DOMAIN v.v
IsinSet(v) ==
    IF v.t = "scalar" THEN {v.v}
    ELSE IF v.t = "list" THEN SeqToSet(v.v)
    ELSE IF "eq" \notin DOMAIN v.v THEN SeqToSet(v.v["isin"])
    ELSE IF "isin" \notin DOMAIN v.v \/ v.v["eq"] \in SeqToSet(v.v["isin"])
        THEN {v.v["eq"]}
    ELSE {}
HasBound(v, op) == v.t = "dict" /\ op \in DOMAIN v.v

\* left's value is at least as restrictive as right's, operator by operator
AtLeastAsRestrictive(l, r) ==
    /\ HasIsin(r) => HasIsin(l) /\ IsinSet(l) \subseteq IsinSet(r)
    /\ HasBound(r, "ne") => HasBound(l, "ne") /\ l.v["ne"] = r.v["ne"]
    /\ \A op \in {"le", "lt"} :
           HasBound(r, op) => HasBound(l, op) /\ l.v[op] <= r.v[op]
    /\ \A op \in {"ge", "gt"} :
           HasBound(r, op) => HasBound(l, op) /\ l.v[op] >= r.v[op]

\* C12: for filters over eq, ne, le, lt, ge, gt, isin, non-strict is_subfilter
\* returns true exactly when every field of right is a field of left whose
\* value is at least as restrictive, operator by operator of right's value;
\* otherwise it returns false
C12_SubfilterCharacterized ==
    (SubfilterCalled /\ ~sfStrict /\ Orderable(sfLeft) /\ Orderable(sfRight)) =>
        sfRet = Return(\A p \in DOMAIN sfRight :
                          /\ sfRight[p][1] \in KeySet(sfLeft)
                          /\ AtLeastAsRestrictive(Lookup(sfLeft, sfRight[p][1]),
                                                  sfRight[p][2]))

\* C12 witness: a true verdict where left has a field and an operator that
\* right lacks
C12_Witness ==
    /\ SubfilterCalled /\ ~sfStrict /\ sfRet = Return(TRUE)
    /\ Orderable(sfLeft) /\ Orderable(sfRight)
    /\ Len(sfLeft) = 2 /\ Len(sfRight) = 1
    /\ "le" \in OperatorsUsed(sfLeft) /\ "le" \notin OperatorsUsed(sfRight)

\* the value of a row under a field name: the column for query_frame when the
\* name is a column, the index level of that name otherwise
RowValue(kind, row, key) ==
    IF kind = "frame" /\ key \in SeqToSet(Columns) THEN row.col[key]
    ELSE row.idx[LevelNumber(key)]

\* the field key=value matches the row under compare
RowMatches(kind, row, field) == compare(<<RowValue(kind, row, field[1])>>, field[2]).val[1]

\* C13: a call of query_frame or query_series that returns, on a list of
\* non-empty dictionaries, returns the rows of the input that match every
\* field of at least one dictionary, in input order and once each; on the
\* empty list it returns the input
C13_OrOfAnds ==
    (qfRet # NoCall /\ qfRet.ok /\ \A k \in DOMAIN qfList : qfList[k] # <<>>) =>
        IF qfList = <<>> THEN qfRet.val = BaseDf
        ELSE qfRet.val =
                SelectSeq(BaseDf, LAMBDA row :
                    \E k \in DOMAIN qfList :
                        \A f \in DOMAIN qfList[k] : RowMatches(qfKind, row, qfList[k][f]))

\* C13 witness: two dictionaries of two fields each, whose union of rows is
\* neither dictionary's rows nor the whole input
C13_Witness ==
    /\ qfRet # NoCall /\ qfRet.ok /\ qfKind = "frame"
    /\ Len(qfList) = 2 /\ Len(qfList[1]) = 2 /\ Len(qfList[2]) = 2
    /\ Len(qfRet.val) < NRows
    /\ qfRet.val # query_frame(BaseDf, <<qfList[1]>>).val
    /\ qfRet.val # query_frame(BaseDf, <<qfList[2]>>).val

-----------------------------------------------------------------------------
(* compare, called on its own *)

\* the strings of no, one or two of the characters 1 and 2
Strings == {<<>>} \cup {<<c>> : c \in 1..2} \cup {<<c, d>> : c, d \in 1..2}

\* a Series of integers around the operands, with one value repeated, and a
\* Series of all the strings; or an empty Series
CompareSeries(dtype) ==
    IF dtype = "object"
        THEN {<<>>, << <<>>, <<1>>, <<1, 1>>, <<1, 2>>, <<2>>, <<2, 1>>, <<2, 2>> >>}
    ELSE {<<>>, [i \in 1..(MaxOperand + 4) |-> IF i = MaxOperand + 4 THEN 0 ELSE i - 2]}

CmpScalars(dtype) == IF dtype = "object" THEN {<<1>>, <<1, 2>>, <<2>>} ELSE 0..MaxOperand
CmpLists(dtype) ==
    {<<>>} \cup {<<x>> : x \in CmpScalars(dtype)}
           \cup {<<x, y>> : x, y \in CmpScalars(dtype)}
Patterns == {<<1>>, <<2, 1>>, <<Caret, 1>>, <<Caret, 2, 1>>}

\* "like" and "glob" stand for operator names that compare does not know
CmpOps == COMPARISON_OPERATORS \cup {"like", "glob"}
CmpOperandsOf(dtype, op) ==
    IF op = "isin" THEN CmpLists(dtype)
    ELSE IF op = "regex" THEN Patterns
    ELSE CmpScalars(dtype)

\* mappings of no, one or two operators
CmpDicts(dtype) ==
    {<<>>}
        \cup UNION {{[o \in {op} |-> x] : x \in CmpOperandsOf(dtype, op)} : op \in CmpOps}
        \cup UNION {{[o \in {pq[1], pq[2]} |-> IF o = pq[1] THEN xy[1] ELSE xy[2]] :
                        xy \in CmpOperandsOf(dtype, pq[1]) \X CmpOperandsOf(dtype, pq[2])} :
                    pq \in {p \in CmpOps \X CmpOps : p[1] # p[2]}}

InitCompare ==
    /\ InitCache /\ InitThreads /\ IdleFrame /\ IdleSubfilter /\ IdleConcat
    /\ cmpDtype \in {"int64", "object"}
    /\ cmpObj \in CompareSeries(cmpDtype)
    /\ \/ cmpValue \in {Scalar(x) : x \in CmpScalars(cmpDtype)}
       \/ cmpValue \in {ListV(l) : l \in CmpLists(cmpDtype)}
       \/ cmpValue \in {DictV(d) : d \in CmpDicts(cmpDtype)}
    /\ cmpRet = NoCall

CallCompare ==
    /\ cmpRet = NoCall
    /\ cmpRet' = compare_on(cmpDtype, cmpObj, cmpValue)
    /\ UNCHANGED <<cacheVars, threadVars, frameVars, subfilterVars, concatVars,
                   cmpDtype, cmpObj, cmpValue>>

NextCompare == CallCompare

SpecCompare == InitCompare /\ [][NextCompare]_vars

\* compare with the one operator op of the mapping value
SingleOp(op) == compare_on(cmpDtype, cmpObj, DictV([o \in {op} |-> cmpValue.v[op]]))

\* C14: for a non-empty mapping of recognized operators compare returns the
\* element-by-element AND of the masks of each operator applied on its own
\* (and fails only if one of them fails on its own); for a list it returns
\* the membership of each element in the list; for a scalar, the equality of
\* each element with it
C14_CompareElementwise ==
    cmpRet # NoCall =>
        IF cmpValue.t = "dict" THEN
            (DOMAIN cmpValue.v # {} /\ DOMAIN cmpValue.v \subseteq COMPARISON_OPERATORS) =>
                /\ cmpRet.ok <=> \A op \in DOMAIN cmpValue.v : SingleOp(op).ok
                /\ cmpRet.ok =>
                       cmpRet.val = [i \in DOMAIN cmpObj |->
                                        \A op \in DOMAIN cmpValue.v : SingleOp(op).val[i]]
        ELSE IF cmpValue.t = "list" THEN
            cmpRet = Return([i \in DOMAIN cmpObj |-> cmpObj[i] \in SeqToSet(cmpValue.v)])
        ELSE cmpRet = Return([i \in DOMAIN cmpObj |-> cmpObj[i] = cmpValue.v])

\* C14 witness: a regex and a bound on a Series of strings, whose mask keeps
\* some elements and is the mask of neither operator alone
C14_Witness ==
    /\ cmpRet # NoCall /\ cmpRet.ok /\ cmpDtype = "object"
    /\ cmpValue.t = "dict" /\ DOMAIN cmpValue.v = {"regex", "le"}
    /\ \E i \in DOMAIN cmpObj : cmpRet.val[i]
    /\ cmpRet.val # SingleOp("regex").val
    /\ cmpRet.val # SingleOp("le").val

\* C15: compare with an empty mapping raises the empty-filter error, and with
\* a mapping that has a key outside eq, ne, le, lt, ge, gt, isin, regex raises
\* the unsupported-operator error naming exactly those keys
C15_InvalidMappingRaises ==
    (cmpRet # NoCall /\ cmpValue.t = "dict") =>
        LET offending == DOMAIN cmpValue.v
                            \ {"eq", "ne", "le", "lt", "ge", "gt", "isin", "regex"}
        IN  /\ DOMAIN cmpValue.v = {} => cmpRet = Raise("ValueError: Empty filter")
            /\ offending # {} =>
                   cmpRet = RaiseWith("ValueError: Unsupported operator(s)", offending)

\* C15 witness: the error names the one unknown key of a mapping that also
\* has a recognized key
C15_Witness ==
    /\ cmpRet # NoCall /\ ~cmpRet.ok /\ cmpObj # <<>>
    /\ cmpValue.t = "dict" /\ DOMAIN cmpValue.v = {"le", "like"}
    /\ cmpRet.args = {"like"}

-----------------------------------------------------------------------------
(* smart_concat *)

\* A Series or DataFrame is modelled by its index: the names of the levels and,
\* for each row, the values of the levels.  A value records the level and the
\* object it comes from.
Count(seq, x) == Cardinality({p \in DOMAIN seq : seq[p] = x})

\* MultiIndex._get_level_number for a level given by name
GetLevelNumber(names, level) ==
    IF Count(names, level) > 1
        THEN Raise("ValueError: The name occurs multiple times, use a level number")
    ELSE Return(CHOOSE p \in DOMAIN names : names[p] = level)

\* obj.reorder_levels(order), order a list of names as long as obj.index.names
PdReorderLevels(obj, order) ==
    LET numbers == [j \in DOMAIN order |-> GetLevelNumber(obj.names, order[j])]
    IN  IF ~AllOk(numbers) THEN FirstError(numbers)
        ELSE Return([names |-> [j \in DOMAIN order |-> obj.names[numbers[j].val]],
                     rows |-> [r \in DOMAIN obj.rows |->
                                  [j \in DOMAIN order |-> obj.rows[r][numbers[j].val]]]])

\* _reorder_levels
reorder_levels(obj, order) ==
    IF Len(order) # Len(obj.names)
        THEN Raise("RuntimeError: Length of order must be same as number of levels")
    ELSE IF SeqToSet(order) \ SeqToSet(obj.names) # {}
        THEN RaiseWith("RuntimeError: Levels not found", SeqToSet(order) \ SeqToSet(obj.names))
    ELSE PdReorderLevels(obj, order)

\* _ordered, once order is set to the names of the first object
ordered(obj, order) == IF order = obj.names THEN Return(obj) ELSE reorder_levels(obj, order)

IsEmpty(obj) == obj.rows = <<>>

\* the rows of the k-th object, labelled with key, followed by the rows of the
\* objects after it labelled with the keys after key
RECURSIVE Labelled(_, _, _)
Labelled(objects, keys, k) ==
    IF k > Len(objects) \/ k > Len(keys) THEN <<>>
    ELSE [r \in DOMAIN objects[k].rows |-> [key |-> keys[k], idx |-> objects[k].rows[r]]]
             \o Labelled(objects, keys, k + 1)

\* pd.concat(objects, keys=keys) of objects with the same level names: the set
\* of its possible outcomes.  With as many keys as objects, or no keys, there
\* is one outcome; with more keys than objects pandas pairs the objects with
\* the first keys or raises ValueError, depending on its version and on the
\* indexes.
PdConcat(objects, keys_given, keys) ==
    IF objects = <<>> THEN {Raise("ValueError: No objects to concatenate")}
    ELSE IF ~keys_given
        THEN {Return([names |-> objects[1].names,
                      rows |-> Labelled(objects, [k \in DOMAIN objects |-> None], 1)])}
    ELSE {Return([names |-> objects[1].names, rows |-> Labelled(objects, keys, 1)])}
            \cup (IF Len(keys) # Len(objects)
                      THEN {Raise("ValueError: keys and objects differ in length")}
                  ELSE {})

\* smart_concat(iterable, keys=keys, skip_empty=skip_empty): the set of its
\* possible outcomes.  items is the sequence of <<key, object>>; kind tells
\* whether the keys are passed on to pd.concat.
smart_concat(kind, items, skip_empty) ==
    LET keys == [k \in DOMAIN items |-> items[k][1]]
        outs == [k \in DOMAIN items |-> ordered(items[k][2], items[1][2].names)]
        objects == [k \in DOMAIN items |-> outs[k].val]
        kept == IF skip_empty /\ ~(\A k \in DOMAIN objects : IsEmpty(objects[k]))
                    THEN SelectSeq(objects, LAMBDA obj : ~IsEmpty(obj))
                ELSE objects
    IN  IF ~AllOk(outs) THEN {FirstError(outs)}
        ELSE PdConcat(kept, kind # "list", keys)

\* the level names of the objects: one or two levels, in either order, with a
\* name of its own or a repeated name
LevelNames == {<<"a">>, <<"a", "b">>, <<"b", "a">>, <<"a", "a">>, <<"a", "c">>}

\* the object at position k of the input, with n rows
MakeObj(k, names, n) ==
    [names |-> names,
     rows |-> [r \in 1..n |->
                  [p \in DOMAIN names |-> [name |-> names[p], pos |-> p, obj |-> k, row |-> r]]]]

KeyOf(k) == <<"k1", "k2", "k3", "k4">>[k]

\* inputs of up to MaxObjects objects, each empty or of one row
ConcatInputs ==
    UNION {{[k \in 1..n |-> <<KeyOf(k), MakeObj(k, f[k][1], f[k][2])>>] :
               f \in [1..n -> LevelNames \X {0, 1}]} : n \in 0..MaxObjects}

InitConcat ==
    /\ InitCache /\ InitThreads /\ IdleFrame /\ IdleSubfilter /\ IdleCompare
    /\ scKind \in {"list", "list_keys", "mapping"}
    /\ scItems \in ConcatInputs
    /\ scSkipEmpty \in BOOLEAN
    /\ scRet = NoCall

CallSmartConcat ==
    /\ scRet = NoCall
    /\ scRet' \in smart_concat(scKind, scItems, scSkipEmpty)
    /\ UNCHANGED <<cacheVars, threadVars, frameVars, subfilterVars, compareVars,
                   scKind, scItems, scSkipEmpty>>

NextConcat == CallSmartConcat

SpecConcat == InitConcat /\ [][NextConcat]_vars

ConcatCalled == scRet # NoCall

\* the level names of the first object, and of the k-th
FirstNames == scItems[1][2].names
NamesOf(k) == scItems[k][2].names

\* the k-th object has the level names of the first, in some order
SameLevelNames(k) ==
    /\ Len(NamesOf(k)) = Len(FirstNames)
    /\ \A x \in SeqToSet(FirstNames) \cup SeqToSet(NamesOf(k)) :
           Count(NamesOf(k), x) = Count(FirstNames, x)

\* C16 as stated, for a non-empty list passed without keys: smart_concat
\* either raises RuntimeError, some object having another number of levels
\* than the first or lacking one of its level names, or returns a
\* concatenation of objects that all have the level names of the first, with
\* every row's values arranged in the first object's level order, each value
\* under its own level name and none lost
C16_RaisesOrKeepsLevels ==
    (ConcatCalled /\ scKind = "list" /\ scItems # <<>>) =>
        IF ~scRet.ok THEN
            /\ scRet.err \in {"RuntimeError: Length of order must be same as number of levels",
                               "RuntimeError: Levels not found"}
            /\ \E k \in DOMAIN scItems :
                   \/ Len(NamesOf(k)) # Len(FirstNames)
                   \/ SeqToSet(FirstNames) \ SeqToSet(NamesOf(k)) # {}
        ELSE
            /\ \A k \in DOMAIN scItems : SameLevelNames(k)
            /\ scRet.val.names = FirstNames
            /\ \A r \in DOMAIN scRet.val.rows :
                   LET idx == scRet.val.rows[r].idx
                   IN  /\ \A j \in DOMAIN idx : idx[j].name = FirstNames[j]
                       /\ Cardinality(SeqToSet(idx)) = Len(FirstNames)

-----------------------------------------------------------------------------
(* The prefix cache, call by call *)

\* the query a call runs: the query argument, pruned if the call asks for it
RunQuery == PruneQuery(lastQuery, lastIgnore)

\* the i-th entry of the stack st has the key and the value of the i-th field of q
SameField(st, q, i) == st[i].key = q[i][1] /\ st[i].value = q[i][2]

\* n is the length of the longest common prefix of the stack st and the query q
IsCommonPrefix(st, q, n) ==
    /\ n <= Len(st) /\ n <= Len(q)
    /\ \A i \in 1..n : SameField(st, q, i)
    /\ (n < Len(st) /\ n < Len(q)) => ~SameField(st, q, n + 1)

\* C17: on every call of query the recorded matched count is the length of
\* the longest prefix of the stack before the call whose entries have both
\* the key and the value of the query's fields at the same positions
C17_MatchedIsCommonPrefix ==
    [][IsCommonPrefix(stack, RunQuery', matched')]_vars

\* C17 witness: a query of two known fields after which the count is one: the
\* stack agreed with the first field and not with the second
C17_Witness ==
    /\ Called /\ ~lastIgnore /\ ret.ok
    /\ Len(lastQuery) = 2 /\ matched = 1

\* C18: in every reachable state every stack entry's view is the base table
\* filtered by the entry's key=value and by those of the entries below it
C18_StackViewsValid == StackValid(stack)

\* C18 witness: a stack of two entries, the second view a proper non-empty
\* part of the first, the first a proper part of the base table
C18_Witness ==
    /\ Called /\ Len(stack) = 2
    /\ stack[2].df # <<>> /\ stack[2].df # stack[1].df
    /\ stack[1].df # SelfDf

\* C19: after a call that returns, the stack is the first matched entries of
\* the stack before the call, unchanged, followed by one entry per field of
\* the query from position matched on: its keys and values are the query's
\* fields in order, the returned view is the view of its top entry (the base
\* table for the empty query), and the base table is the same
C19_StackFollowsQuery ==
    [][ret'.ok =>
        /\ SubSeq(stack', 1, matched') = SubSeq(stack, 1, matched')
        /\ Len(stack') = Len(RunQuery')
        /\ \A i \in DOMAIN stack' : SameField(stack', RunQuery', i)
        /\ ret'.val = (IF RunQuery' = <<>> THEN selfDf ELSE stack'[Len(stack')].df)
        /\ selfDf' = selfDf
    ]_vars

\* C19 witness: a call that returned with a stack of two entries, of which it
\* reused the first
C19_Witness ==
    /\ Called /\ ret.ok /\ matched = 1
    /\ Len(stack) = 2 /\ ret.val = stack[2].df

\* C20 as stated, for objects that all have the first object's level names in
\* the first object's order: with skip_empty true and keys supplied, the call
\* returns and every row of the result is labelled, in the outermost level,
\* with the key its object was supplied under
C20_KeysFollowObjects ==
    (ConcatCalled /\ scSkipEmpty /\ scKind # "list" /\ scItems # <<>>
        /\ \A k \in DOMAIN scItems : NamesOf(k) = FirstNames) =>
        /\ scRet.ok
        /\ \A r \in DOMAIN scRet.val.rows :
               scRet.val.rows[r].key = KeyOf(scRet.val.rows[r].idx[1].obj)

====
